---- MODULE Spec2Model ----
(***************************************************************************)
(* The two reconcilers of ceph.automation: plugins/modules/ceph_config.py  *)
(* (one configuration override) and plugins/modules/ceph_orch_apply.py     *)
(* (one service specification).  One invocation of a module is a process   *)
(* that steps from one external command to the next; the cluster (the      *)
(* configuration store and the service listing) is the shared state.       *)
(***************************************************************************)
EXTENDS Integers, Sequences, FiniteSets, TLC

VARIABLES
    variant,     \* "config" (ceph_config.main) or "service" (ceph_orch_apply.run_module)
    params,      \* module.params and module.check_mode of the invocation
    store,       \* cluster: configuration store, (who, option) -> value or None
    svc,         \* cluster: the listing entry of the service the spec names
    pc,          \* position of the invocation in main / run_module
    current,     \* current_value (config) or current_spec (service) once read
    issued,      \* every run_command call of this invocation: cmd, stdin, rc
    outcome,     \* what the invocation ended with (exit_json, fail_json, raise)
    run,         \* how many times the invocation has been started
    before,      \* the cluster (store, svc) when this run started
    prev,        \* the previous run of the invocation: its outcome, calls, start
    other        \* a second invocation of ceph_config running at the same time,
                 \* while it is not the one taking a step

vars == <<variant, params, store, svc, pc, current, issued, outcome, run, before,
          prev, other>>

----------------------------------------------------------------------------
(* Bounds and small input sets *)

\* number of times the same invocation is run in sequence
MaxRuns == 2
\* number of records the configuration store starts with
MaxRecords == 2

Whos == {"osd", "osd.0"}
Options == {"osd_memory_target", "osd_pool_default_size"}
Values == {"true", "True", "None", "5368709120"}
Actions == {"get", "set", "remove"}
Fsids == {"", "f1"}
\* exit codes a command can end with
RCs == {0, 1}

----------------------------------------------------------------------------
(* Python values *)

\* Python's None and a str, as one shape
None == [none |-> TRUE, val |-> ""]
Str(s) == [none |-> FALSE, val |-> s]

\* str(x): the text "None" for None, the string itself otherwise
PyStr(x) == IF x.none THEN "None" ELSE x.val

\* the characters of the strings the model uses
Chars(s) ==
    CASE s = "true" -> <<"t", "r", "u", "e">>
      [] s = "True" -> <<"T", "r", "u", "e">>
      [] s = "None" -> <<"N", "o", "n", "e">>
      [] s = "5368709120" -> <<"5", "3", "6", "8", "7", "0", "9", "1", "2", "0">>

LowerChar(c) ==
    CASE c = "T" -> "t"
      [] c = "N" -> "n"
      [] OTHER -> c

\* str.lower()
Lower(cs) == [i \in 1..Len(cs) |-> LowerChar(cs[i])]

----------------------------------------------------------------------------
(* module_utils.ceph_common *)

\* build_base_cmd: cephadm shell [--fsid <fsid>]
BuildBaseCmd(p) ==
    <<"cephadm", "shell">> \o (IF p.fsid # "" THEN <<"--fsid", p.fsid>> ELSE <<>>)

BuildBaseCmdShell(p) == BuildBaseCmd(p)

BuildBaseCmdOrch(p) == BuildBaseCmd(p) \o <<"ceph", "orch">>

NoOutcome ==
    [kind |-> "none", changed |-> FALSE, cmd |-> <<>>, rc |-> 0,
     out |-> <<>>, err |-> <<>>]

\* exit_module: module.exit_json(cmd, rc, stdout, stderr, changed, ...)
ExitModule(out, rc, cmd, err, changed) ==
    [kind |-> "exit", changed |-> changed, cmd |-> cmd, rc |-> rc,
     out |-> out, err |-> err]

\* module.fail_json(msg=err, cmd=cmd, rc=rc)
FailJson(msg, cmd, rc) ==
    [kind |-> "fail", changed |-> FALSE, cmd |-> cmd, rc |-> rc,
     out |-> <<>>, err |-> msg]

\* fatal: module.fail_json(msg=message, rc=1)
Fatal(message) ==
    [kind |-> "fatal", changed |-> FALSE, cmd |-> <<>>, rc |-> 1,
     out |-> <<>>, err |-> message]

\* an exception that leaves run_module
Raise(exc, message) ==
    [kind |-> "raise", changed |-> FALSE, cmd |-> <<>>, rc |-> 1,
     out |-> <<exc>>, err |-> message]

----------------------------------------------------------------------------
(* The cluster's configuration store *)

Keys == Whos \X Options

\* the order `ceph config dump` lists the records in
KeyOrder ==
    << <<"osd", "osd_memory_target">>, <<"osd", "osd_pool_default_size">>,
       <<"osd.0", "osd_memory_target">>, <<"osd.0", "osd_pool_default_size">> >>

RECURSIVE DumpFrom(_, _)
DumpFrom(st, i) ==
    IF i > Len(KeyOrder) THEN <<>>
    ELSE LET k == KeyOrder[i]
         IN (IF st[k].none THEN <<>>
             ELSE << [section |-> k[1], name |-> k[2], value |-> st[k].val] >>)
            \o DumpFrom(st, i + 1)

\* json.loads of the output of `ceph config dump --format json`
ConfigDump(st) == DumpFrom(st, 1)

\* stderr of a command that ended with rc
Stderr(rc) == IF rc = 0 THEN <<>> ELSE <<"EIO">>

\* what a write may leave on stdout: nothing, or some text when it fails
Stdouts(rc) == IF rc = 0 THEN {<<>>} ELSE {<<>>, <<"usage">>}

\* what a run_command call is recorded as: the command, its stdin, and the
\* (rc, out, err) it returned
CallOut(cmd, data, rc, out) ==
    [cmd |-> cmd, data |-> data, rc |-> rc, out |-> out, err |-> Stderr(rc)]

Call(cmd, data, rc) == CallOut(cmd, data, rc, <<>>)

----------------------------------------------------------------------------
(* ceph_config.py *)

DumpCmd(p) == BuildBaseCmdShell(p) \o <<"ceph", "config", "dump", "--format", "json">>

SetCmd(p) == BuildBaseCmdShell(p) \o <<"ceph", "config", "set", p.who, p.option, p.value>>

RmCmd(p) == BuildBaseCmdShell(p) \o <<"ceph", "config", "rm", p.who, p.option>>

RECURSIVE ScanDump(_, _, _, _)
ScanDump(who, option, config_dump, i) ==
    IF i > Len(config_dump) THEN None
    ELSE IF config_dump[i].section = who /\ config_dump[i].name = option
         THEN Str(config_dump[i].value)
         ELSE ScanDump(who, option, config_dump, i + 1)

\* get_current_value matching the section alone
RECURSIVE ScanSection(_, _, _)
ScanSection(who, config_dump, i) ==
    IF i > Len(config_dump) THEN None
    ELSE IF config_dump[i].section = who
         THEN Str(config_dump[i].value)
         ELSE ScanSection(who, config_dump, i + 1)

GetCurrentValueBySection(who, option, config_dump) == ScanSection(who, config_dump, 1)

\* get_current_value: the value of the first matching record, else None
GetCurrentValue(who, option, config_dump) == ScanDump(who, option, config_dump, 1)

\* the comparison without lower()
AlreadySetExact(value, current_value) == PyStr(Str(value)) = PyStr(current_value)

\* str(value).lower() == str(current_value).lower()
AlreadySet(value, current_value) ==
    Lower(Chars(PyStr(Str(value)))) = Lower(Chars(PyStr(current_value)))

\* the store after `ceph config set who option value` exited zero
StoreSet(st, p) == [st EXCEPT ![<<p.who, p.option>>] = Str(p.value)]

\* the store after `ceph config rm who option` exited zero
StoreRm(st, p) == [st EXCEPT ![<<p.who, p.option>>] = None]

\* the skipped set reporting a change
SetSkippedChanged(p) ==
    ExitModule(<<"already set", p.who, p.option, p.value>>, 0, DumpCmd(p), <<>>, TRUE)

\* lines 170-171: the value is already set
SetSkipped(p) ==
    ExitModule(<<"already set", p.who, p.option, p.value>>, 0, DumpCmd(p), <<>>, FALSE)

\* check mode reporting no change for a value that would be set
WouldBeSetUnchanged(p) ==
    ExitModule(<<"would be set", p.who, p.option, p.value>>, 0, DumpCmd(p), <<>>, FALSE)

\* lines 173-175: check mode, the value would be set
WouldBeSet(p) ==
    ExitModule(<<"would be set", p.who, p.option, p.value>>, 0, DumpCmd(p), <<>>, TRUE)

\* the skipped remove reporting no command
RemoveSkippedNoCmd(p) ==
    ExitModule(<<"already absent", p.who, p.option>>, 0, <<>>, <<>>, FALSE)

\* lines 183-184: the option is already absent
RemoveSkipped(p) ==
    ExitModule(<<"already absent", p.who, p.option>>, 0, DumpCmd(p), <<>>, FALSE)

\* lines 186-188: check mode, the option would be removed
WouldBeRemoved(p) ==
    ExitModule(<<"would be removed", p.who, p.option>>, 0, DumpCmd(p), <<>>, TRUE)

\* a failed write reported as an ordinary result
WrittenNeverFails(cmd, rc) == ExitModule(<<>>, rc, cmd, Stderr(rc), TRUE)

\* lines 177-180 and 190-193: the outcome of a write that ended with rc
Written(cmd, rc) ==
    IF rc # 0 THEN FailJson(Stderr(rc), cmd, rc)
    ELSE ExitModule(<<>>, rc, cmd, Stderr(rc), TRUE)

ConfigParams ==
    [who : Whos, option : Options, value : Values, action : Actions,
     fsid : Fsids, check_mode : BOOLEAN, spec : {<<>>}]

\* lines 129-130: the message of the fatal error, with the stderr put in
CantGetDump(err) == <<"Can't get current configuration via ceph config dump", err>>

\* get_config_dump fails: fatal()
CfgDumpFails ==
    /\ variant = "config" /\ pc = "start"
    /\ \E rc \in RCs \ {0} :
          /\ issued' = Append(issued, Call(DumpCmd(params), <<>>, rc))
          /\ outcome' = Fatal(CantGetDump(Stderr(rc)))
    /\ pc' = "done"
    /\ UNCHANGED <<variant, params, store, svc, current, run, before, prev, other>>

\* a decision taken without the dump having been run
CfgDumpNoRead ==
    /\ variant = "config" /\ pc = "start"
    /\ current' = GetCurrentValue(params.who, params.option, ConfigDump(store))
    /\ pc' = "decide"
    /\ UNCHANGED <<variant, params, store, svc, issued, outcome, run, before, prev, other>>

\* main, lines 165-167: dump, json.loads, get_current_value
CfgDump ==
    /\ variant = "config" /\ pc = "start"
    /\ issued' = Append(issued, Call(DumpCmd(params), <<>>, 0))
    /\ current' = GetCurrentValue(params.who, params.option, ConfigDump(store))
    /\ pc' = "decide"
    /\ UNCHANGED <<variant, params, store, svc, outcome, run, before, prev, other>>

\* action == 'set', value already set
CfgSetSkip ==
    /\ variant = "config" /\ pc = "decide" /\ params.action = "set"
    /\ AlreadySet(params.value, current)
    /\ outcome' = SetSkipped(params)
    /\ pc' = "done"
    /\ UNCHANGED <<variant, params, store, svc, current, issued, run, before, prev, other>>

\* action == 'set', check mode
CfgSetCheck ==
    /\ variant = "config" /\ pc = "decide" /\ params.action = "set"
    /\ ~AlreadySet(params.value, current)
    /\ params.check_mode
    /\ outcome' = WouldBeSet(params)
    /\ pc' = "done"
    /\ UNCHANGED <<variant, params, store, svc, current, issued, run, before, prev, other>>

\* a set that looks at the store again and gives up when the value is no longer
\* the one it read
CfgSetWriteChecked ==
    /\ variant = "config" /\ pc = "decide" /\ params.action = "set"
    /\ ~AlreadySet(params.value, current)
    /\ ~params.check_mode
    /\ IF store[<<params.who, params.option>>] = current
       THEN \E rc \in RCs :
               /\ \E so \in Stdouts(rc) :
                     issued' = Append(issued, CallOut(SetCmd(params), <<>>, rc, so))
               /\ store' = IF rc = 0 THEN StoreSet(store, params) ELSE store
               /\ outcome' = Written(SetCmd(params), rc)
       ELSE /\ outcome' = FailJson(<<"value changed">>, DumpCmd(params), 1)
            /\ UNCHANGED <<issued, store>>
    /\ pc' = "done"
    /\ UNCHANGED <<variant, params, svc, current, run, before, prev, other>>

\* action == 'set': set_option, then fail_json or exit_module
CfgSetWrite ==
    /\ variant = "config" /\ pc = "decide" /\ params.action = "set"
    /\ ~AlreadySet(params.value, current)
    /\ ~params.check_mode
    /\ \E rc \in RCs :
          /\ \E so \in Stdouts(rc) :
                issued' = Append(issued, CallOut(SetCmd(params), <<>>, rc, so))
          /\ store' = IF rc = 0 THEN StoreSet(store, params) ELSE store
          /\ outcome' = Written(SetCmd(params), rc)
    /\ pc' = "done"
    /\ UNCHANGED <<variant, params, svc, current, run, before, prev, other>>

\* action == 'remove', nothing to remove
CfgRemoveSkip ==
    /\ variant = "config" /\ pc = "decide" /\ params.action = "remove"
    /\ current = None
    /\ outcome' = RemoveSkipped(params)
    /\ pc' = "done"
    /\ UNCHANGED <<variant, params, store, svc, current, issued, run, before, prev, other>>

\* action == 'remove', check mode
CfgRemoveCheck ==
    /\ variant = "config" /\ pc = "decide" /\ params.action = "remove"
    /\ current # None
    /\ params.check_mode
    /\ outcome' = WouldBeRemoved(params)
    /\ pc' = "done"
    /\ UNCHANGED <<variant, params, store, svc, current, issued, run, before, prev, other>>

\* action == 'remove': remove_option, then fail_json or exit_module
CfgRemoveWrite ==
    /\ variant = "config" /\ pc = "decide" /\ params.action = "remove"
    /\ current # None
    /\ ~params.check_mode
    /\ \E rc \in RCs :
          /\ \E so \in Stdouts(rc) :
                issued' = Append(issued, CallOut(RmCmd(params), <<>>, rc, so))
          /\ store' = IF rc = 0 THEN StoreRm(store, params) ELSE store
          /\ outcome' = Written(RmCmd(params), rc)
    /\ pc' = "done"
    /\ UNCHANGED <<variant, params, svc, current, run, before, prev, other>>

\* a get that treats the missing value as a failure
CfgGetMissFails ==
    /\ variant = "config" /\ pc = "decide" /\ params.action = "get"
    /\ outcome' = IF current = None
                  THEN FailJson(<<"No value found for", params.who, params.option>>,
                                DumpCmd(params), 1)
                  ELSE ExitModule(<<current.val>>, 0, DumpCmd(params), <<>>, FALSE)
    /\ pc' = "done"
    /\ UNCHANGED <<variant, params, store, svc, current, issued, run, before, prev, other>>

\* action == 'get'
CfgGet ==
    /\ variant = "config" /\ pc = "decide" /\ params.action = "get"
    /\ outcome' = IF current = None
                  THEN ExitModule(<<>>, 0, DumpCmd(params),
                                  <<"No value found for", params.who, params.option>>, FALSE)
                  ELSE ExitModule(<<current.val>>, 0, DumpCmd(params), <<>>, FALSE)
    /\ pc' = "done"
    /\ UNCHANGED <<variant, params, store, svc, current, issued, run, before, prev, other>>

----------------------------------------------------------------------------
(* Service specifications *)

\* the top-level fields, in the order the spec text lists them
FieldOrder == <<"service_type", "service_id", "hostname", "placement", "location">>

P1 == [count |-> 1, label |-> "nfs"]
P2 == [count |-> 2, label |-> "nfs"]

EmptyMap == [k \in {} |-> ""]

Absent == [has |-> FALSE]
Has(v) == [has |-> TRUE, v |-> v]

Field(k, o) == IF o.has THEN k :> o.v ELSE EmptyMap

\* a mapping with the chosen top-level fields
BuildMap(t, i, h, p, l) ==
    Field("service_type", t) @@ Field("service_id", i) @@ Field("hostname", h)
        @@ Field("placement", p) @@ Field("location", l)

\* the YAML text of a mapping: its fields one after the other
RECURSIVE TextFrom(_, _)
TextFrom(m, i) ==
    IF i > Len(FieldOrder) THEN <<>>
    ELSE (IF FieldOrder[i] \in DOMAIN m
          THEN << <<FieldOrder[i], m[FieldOrder[i]]>> >> ELSE <<>>)
         \o TextFrom(m, i + 1)

YamlDump(m) == TextFrom(m, 1)

\* the spec strings an invocation is given
SpecTexts ==
    { YamlDump(BuildMap(Has(t), i, h, p, l)) :
        t \in {"nfs", "mon", "host"},
        i \in {Absent, Has("iac")},
        h \in {Absent, Has("h1")},
        p \in {Absent, Has(P1)},
        l \in {Absent, Has("rack1")} }

\* the entries the cluster can list for the queried name
ListedMaps ==
    { BuildMap(t, i, h, p, l) :
        t \in {Absent, Has("nfs"), Has("mon"), Has("host")},
        i \in {Absent, Has("iac")},
        h \in {Absent, Has("h1")},
        p \in {Absent, Has(P1), Has(P2)},
        l \in {Absent, Has("rack1"), Has("rack2")} } \ {EmptyMap}

NoService == [present |-> FALSE, m |-> EmptyMap]
Service(m) == [present |-> TRUE, m |-> m]

\* yaml.safe_load of a mapping document: the pairs as a dict
RECURSIVE LoadFrom(_, _)
LoadFrom(text, i) ==
    IF i > Len(text) THEN EmptyMap
    ELSE LoadFrom(text, i + 1) @@ (text[i][1] :> text[i][2])

\* parse_spec
ParseSpec(text) == LoadFrom(text, 1)

\* the keys of a parsed spec in iteration order
SpecKeys(text) == [i \in 1..Len(text) |-> text[i][1]]

\* stdout of a command: nothing, the sentinel line, or a YAML mapping
OutEmpty == [kind |-> "empty", m |-> EmptyMap]
OutText == [kind |-> "text", m |-> EmptyMap]
OutDoc(m) == [kind |-> "doc", m |-> m]

\* Python values yaml.safe_load returns: None, a str, a dict
PyNone == [kind |-> "none", m |-> EmptyMap]
PyText == [kind |-> "str", m |-> EmptyMap]
PyDict(m) == [kind |-> "dict", m |-> m]

YamlLoad(stdout) ==
    CASE stdout.kind = "empty" -> PyNone
      [] stdout.kind = "text" -> PyText
      [] stdout.kind = "doc" -> PyDict(stdout.m)

\* module.run_command returns the tuple (rc, stdout, stderr)
RunResult(rc, stdout) == [isstr |-> FALSE, rc |-> rc, stdout |-> stdout]

\* what `ceph orch ls` / `ceph orch host ls` print for the listing entry:
\* 'No services reported' when there is no service, nothing when no host matches
OrchLsStdout(service, entry) ==
    IF entry.present THEN OutDoc(entry.m)
    ELSE IF service # "host" THEN OutText ELSE OutEmpty

----------------------------------------------------------------------------
(* ceph_orch_apply.py *)

IdServices == {"iscsi", "nvmeof", "mds", "nfs", "osd", "rgw", "container", "ingress"}

\* the key retrieve_current_spec reads from the spec beside service_type
NeededKey(expected) ==
    IF expected["service_type"] = "host" THEN "hostname"
    ELSE IF expected["service_type"] \in IdServices THEN "service_id"
    ELSE "service_type"

\* "%s.%s" % (service, service_id), for the names the model uses
Dotted(service, id) ==
    CASE service = "nfs" /\ id = "iac" -> "nfs.iac"

\* srv_name
SrvName(expected) ==
    IF expected["service_type"] \in IdServices
    THEN Dotted(expected["service_type"], expected["service_id"])
    ELSE expected["service_type"]

\* the read command of retrieve_current_spec
LsCmd(p, expected) ==
    IF expected["service_type"] # "host"
    THEN BuildBaseCmdOrch(p)
            \o <<"ls", expected["service_type"], SrvName(expected), "--format=yaml">>
    ELSE BuildBaseCmdOrch(p)
            \o <<"host", "ls", "--host-pattern", expected["hostname"], "--format=yaml">>

ApplyCmd(p) == BuildBaseCmdOrch(p) \o <<"apply", "-i", "-">>

\* retrieve_current_spec, lines 136-141: what is returned for run_command's result
RetrieveCurrentSpec(out) ==
    IF out.isstr THEN PyDict(EmptyMap) ELSE YamlLoad(out.stdout)

\* Python truth value of current
Truthy(cur) ==
    CASE cur.kind = "none" -> FALSE
      [] cur.kind = "str" -> TRUE
      [] cur.kind = "dict" -> DOMAIN cur.m # {}

\* `key in current`: a dict key, or a substring of the sentinel line (no field
\* name is one)
KeyIn(key, cur) == cur.kind = "dict" /\ key \in DOMAIN cur.m

\* the host rule left out
InjectHostNever(cur, expected) == cur

\* lines 162-163: current['service_type'] = 'host'
InjectHost(cur, expected) ==
    IF expected["service_type"] = "host"
    THEN PyDict(("service_type" :> "host") @@ cur.m)
    ELSE cur

\* the loop without the exception for 'location'
RECURSIVE CompareFromNoSkip(_, _, _, _)
CompareFromNoSkip(cur, expected, keys, i) ==
    IF i > Len(keys) THEN FALSE
    ELSE IF KeyIn(keys[i], cur)
         THEN IF cur.m[keys[i]] # expected[keys[i]] THEN TRUE
              ELSE CompareFromNoSkip(cur, expected, keys, i + 1)
         ELSE TRUE

\* lines 165-175: the loop over expected.items()
RECURSIVE CompareFrom(_, _, _, _)
CompareFrom(cur, expected, keys, i) ==
    IF i > Len(keys) THEN FALSE
    ELSE IF KeyIn(keys[i], cur)
         THEN IF cur.m[keys[i]] # expected[keys[i]] THEN TRUE
              ELSE CompareFrom(cur, expected, keys, i + 1)
         ELSE IF keys[i] # "location" THEN TRUE
              ELSE CompareFrom(cur, expected, keys, i + 1)

\* change_required raises TypeError: item assignment on a str
ChangeRequiredRaises(cur, expected) ==
    Truthy(cur) /\ cur.kind = "str" /\ expected["service_type"] = "host"

\* change_required without its first two lines
ChangeRequiredNoEmptyCase(cur, expected, keys) ==
    CompareFrom(InjectHost(cur, expected), expected, keys, 1)

\* change_required as full equality of the two mappings
ChangeRequiredSymmetric(cur, expected, keys) ==
    IF ~Truthy(cur) THEN TRUE
    ELSE InjectHost(cur, expected).m # expected

\* change_required
ChangeRequired(cur, expected, keys) ==
    IF ~Truthy(cur) THEN TRUE
    ELSE CompareFrom(InjectHost(cur, expected), expected, keys, 1)

\* what the cluster lists after `ceph orch apply` of the spec: the spec, or for
\* a host the spec without service_type and location
Persisted(expected) ==
    {expected} \cup
    (IF expected["service_type"] = "host"
     THEN {[k \in DOMAIN expected \ {"service_type", "location"} |-> expected[k]]}
     ELSE {})

\* check mode ignored
ShortCircuitsNever(p) == FALSE

\* line 202: check mode ends run_module before anything is read
ShortCircuits(p) == p.check_mode

\* lines 203-211: the outcome of a check-mode run
CheckModeExit == ExitModule(<<>>, 0, <<>>, <<>>, FALSE)

\* lines 220-225: the outcome when nothing has to be applied
Unchanged == ExitModule(<<>>, 0, <<>>, <<>>, FALSE)

ServiceParams ==
    [who : {""}, option : {""}, value : {""}, action : {""},
     fsid : {""}, check_mode : BOOLEAN, spec : SpecTexts]

\* run_module, lines 202-211: check mode exits at once
OrchCheckMode ==
    /\ variant = "service" /\ pc = "start"
    /\ ShortCircuits(params)
    /\ outcome' = CheckModeExit
    /\ pc' = "done"
    /\ UNCHANGED <<variant, params, store, svc, current, issued, run, before, prev, other>>

\* retrieve_current_spec raises KeyError: the spec lacks service_id / hostname
OrchRetrieveKeyError ==
    /\ variant = "service" /\ pc = "start"
    /\ ~ShortCircuits(params)
    /\ NeededKey(ParseSpec(params.spec)) \notin DOMAIN ParseSpec(params.spec)
    /\ outcome' = Raise("KeyError", <<NeededKey(ParseSpec(params.spec))>>)
    /\ pc' = "done"
    /\ UNCHANGED <<variant, params, store, svc, current, issued, run, before, prev, other>>

\* run_module, lines 214-215: parse_spec, retrieve_current_spec
OrchRetrieve ==
    /\ variant = "service" /\ pc = "start"
    /\ ~ShortCircuits(params)
    /\ LET expected == ParseSpec(params.spec)
       IN /\ NeededKey(expected) \in DOMAIN expected
          /\ \E rc \in RCs :
                LET stdout == IF rc = 0
                              THEN OrchLsStdout(expected["service_type"], svc)
                              ELSE OutEmpty
                IN /\ issued' = Append(issued, Call(LsCmd(params, expected), <<>>, rc))
                   /\ current' = RetrieveCurrentSpec(RunResult(rc, stdout))
    /\ pc' = "decide"
    /\ UNCHANGED <<variant, params, store, svc, outcome, run, before, prev, other>>

\* run_module, lines 217-219 and 227-235: apply_spec, then exit_module or raise
OrchApply ==
    /\ variant = "service" /\ pc = "decide"
    /\ LET expected == ParseSpec(params.spec)
       IN /\ ~ChangeRequiredRaises(current, expected)
          /\ ChangeRequired(current, expected, SpecKeys(params.spec))
          /\ \E rc \in RCs :
                /\ \E so \in Stdouts(rc) :
                      issued' = Append(issued,
                                       CallOut(ApplyCmd(params), params.spec, rc, so))
                /\ IF rc = 0
                   THEN /\ \E m \in Persisted(expected) : svc' = Service(m)
                        /\ outcome' = ExitModule(<<>>, rc, ApplyCmd(params), Stderr(rc), TRUE)
                   ELSE /\ svc' = svc
                        /\ outcome' = Raise("RuntimeError", Stderr(rc))
    /\ pc' = "done"
    /\ UNCHANGED <<variant, params, store, current, run, before, prev, other>>

\* run_module, lines 220-235: nothing to apply
OrchNoChange ==
    /\ variant = "service" /\ pc = "decide"
    /\ LET expected == ParseSpec(params.spec)
       IN /\ ~ChangeRequiredRaises(current, expected)
          /\ ~ChangeRequired(current, expected, SpecKeys(params.spec))
    /\ outcome' = Unchanged
    /\ pc' = "done"
    /\ UNCHANGED <<variant, params, store, svc, current, issued, run, before, prev, other>>

----------------------------------------------------------------------------
(* Running the same invocation again *)

Cluster(st, entry) == [store |-> st, svc |-> entry]

NoPrev ==
    [outcome |-> NoOutcome, issued |-> <<>>, check_mode |-> FALSE,
     before |-> Cluster([k \in Keys |-> None], NoService)]

\* the invocation is started again, nothing else having touched the cluster
Restart ==
    /\ prev' = [outcome |-> outcome, issued |-> issued,
                check_mode |-> params.check_mode, before |-> before]
    /\ before' = Cluster(store, svc)
    /\ run' = run + 1
    /\ pc' = "start"
    /\ issued' = <<>>
    /\ outcome' = NoOutcome
    /\ current' = IF variant = "config" THEN None ELSE PyNone
    /\ UNCHANGED <<variant, store, svc, other>>

\* the same task is run a second time
Rerun ==
    /\ pc = "done" /\ run < MaxRuns
    /\ Restart
    /\ UNCHANGED params

\* the task that was run in check mode is now run for real
RerunForReal ==
    /\ pc = "done" /\ run < MaxRuns
    /\ params.check_mode
    /\ Restart
    /\ params' = [params EXCEPT !.check_mode = FALSE]

\* no second invocation
NoOther ==
    [params |-> [who |-> "", option |-> "", value |-> "", action |-> "",
                 fsid |-> "", check_mode |-> FALSE, spec |-> <<>>],
     pc |-> "done", current |-> None, issued |-> <<>>, outcome |-> NoOutcome]

ConfigStores ==
    { st \in [Keys -> {None} \cup {Str(v) : v \in Values}] :
        Cardinality({k \in Keys : ~st[k].none}) <= MaxRecords }

Init ==
    /\ variant \in {"config", "service"}
    /\ IF variant = "config"
       THEN /\ params \in ConfigParams
            /\ store \in ConfigStores
            /\ svc = NoService
            /\ current = None
       ELSE /\ params \in ServiceParams
            /\ store = [k \in Keys |-> None]
            /\ svc \in {NoService} \cup {Service(m) : m \in ListedMaps}
            /\ current = PyNone
    /\ pc = "start"
    /\ issued = <<>>
    /\ outcome = NoOutcome
    /\ run = 1
    /\ prev = NoPrev
    /\ before = Cluster(store, svc)
    /\ other = NoOther

Next ==
    \/ CfgDumpFails
    \/ CfgDump
    \/ CfgSetSkip
    \/ CfgSetCheck
    \/ CfgSetWrite
    \/ CfgRemoveSkip
    \/ CfgRemoveCheck
    \/ CfgRemoveWrite
    \/ CfgGet
    \/ OrchCheckMode
    \/ OrchRetrieveKeyError
    \/ OrchRetrieve
    \/ OrchApply
    \/ OrchNoChange
    \/ Rerun
    \/ RerunForReal

Spec == Init /\ [][Next]_vars

----------------------------------------------------------------------------
(* Two invocations of ceph_config at the same time *)

\* the invocations set or remove for real
RaceActions == {"set", "remove"}

RaceParams ==
    [who : Whos, option : Options, value : Values, action : RaceActions,
     fsid : {""}, check_mode : {FALSE}, spec : {<<>>}]

\* the invocation taking steps, as the record it is kept in while it waits
Running ==
    [params |-> params, pc |-> pc, current |-> current, issued |-> issued,
     outcome |-> outcome]

\* two tasks on the same (who, option), both about to start; no other record
\* is in the store
InitRace ==
    /\ variant = "config"
    /\ params \in RaceParams
    /\ \E q \in RaceParams :
          /\ q.who = params.who /\ q.option = params.option
          /\ other = [params |-> q, pc |-> "start", current |-> None,
                      issued |-> <<>>, outcome |-> NoOutcome]
    /\ store \in {st \in ConfigStores :
                    \A k \in Keys : k # <<params.who, params.option>> => st[k].none}
    /\ svc = NoService
    /\ current = None
    /\ pc = "start"
    /\ issued = <<>>
    /\ outcome = NoOutcome
    /\ run = 1
    /\ prev = NoPrev
    /\ before = Cluster(store, svc)

\* nothing in main (lines 165-193) holds a lock between its run_command calls:
\* the invocation that waited goes on from where it was, the other one waits
Switch ==
    /\ variant = "config" /\ other.pc # "done"
    /\ params' = other.params
    /\ pc' = other.pc
    /\ current' = other.current
    /\ issued' = other.issued
    /\ outcome' = other.outcome
    /\ other' = Running
    /\ UNCHANGED <<variant, store, svc, run, before, prev>>

\* one step of the invocation that is running
RaceStep ==
    \/ CfgDumpFails
    \/ CfgDump
    \/ CfgSetSkip
    \/ CfgSetWrite
    \/ CfgRemoveSkip
    \/ CfgRemoveWrite

NextRace ==
    \/ RaceStep
    \/ Switch

SpecRace == InitRace /\ [][NextRace]_vars

----------------------------------------------------------------------------
(* Vocabulary of the properties *)

\* the last n words of a command
Trailing(cmd, n) == IF Len(cmd) < n THEN <<>> ELSE SubSeq(cmd, Len(cmd) - n + 1, Len(cmd))

IsDump(cmd) == Trailing(cmd, 5) = <<"ceph", "config", "dump", "--format", "json">>

IsSet(cmd) == Len(cmd) >= 6 /\ SubSeq(Trailing(cmd, 6), 1, 3) = <<"ceph", "config", "set">>

IsRm(cmd) == Len(cmd) >= 5 /\ SubSeq(Trailing(cmd, 5), 1, 3) = <<"ceph", "config", "rm">>

IsApply(cmd) == Trailing(cmd, 5) = <<"ceph", "orch", "apply", "-i", "-">>

\* the commands that change the cluster
Mutating(cmd) == IsSet(cmd) \/ IsRm(cmd) \/ IsApply(cmd)

\* the positions of the mutating commands among the calls of a run
WriteCalls(calls) == {i \in DOMAIN calls : Mutating(calls[i].cmd)}

\* the run's read was issued and exited zero
ReadOk(calls) == Len(calls) >= 1 /\ calls[1].rc = 0

AllZero(calls) == \A i \in DOMAIN calls : calls[i].rc = 0

Target == <<params.who, params.option>>

Expected == ParseSpec(params.spec)

\* the spec carries the key its read command is built from
ValidSpec == NeededKey(Expected) \in DOMAIN Expected

\* a record for the target exists and holds the desired value, case aside
HoldsValue(st) ==
    /\ ~st[Target].none
    /\ Lower(Chars(st[Target].val)) = Lower(Chars(params.value))

\* the store already is what the set / remove asks for
CfgSatisfied(st) ==
    IF params.action = "set" THEN HoldsValue(st) ELSE st[Target].none

\* every desired field is listed with an equal value, but for a location that
\* is not listed and the service_type of a host
SvcSatisfied(entry) ==
    /\ entry.present
    /\ \A k \in DOMAIN Expected :
          \/ k \in DOMAIN entry.m /\ entry.m[k] = Expected[k]
          \/ k = "location" /\ k \notin DOMAIN entry.m
          \/ k = "service_type" /\ Expected[k] = "host"

----------------------------------------------------------------------------
(* Properties *)

\* C1: idempotence.  When the same set / remove / service spec is run twice in
\* sequence outside check mode, every command exits zero, nobody else touches
\* the cluster and the cluster did not already satisfy the desired state, the
\* first run reports changed=true and the second reports changed=false and
\* issues no mutating command.
C1_Idempotent ==
    ( /\ run = 2 /\ pc = "done"
      /\ ~prev.check_mode /\ ~params.check_mode
      /\ AllZero(prev.issued) /\ AllZero(issued)
      /\ IF variant = "config"
         THEN params.action \in {"set", "remove"} /\ ~CfgSatisfied(prev.before.store)
         ELSE ValidSpec /\ ~SvcSatisfied(prev.before.svc) )
    => /\ prev.outcome.changed
       /\ outcome.kind = "exit" /\ ~outcome.changed
       /\ WriteCalls(issued) = {}

\* C2: action=set outside check mode, the dump exited zero and holds no record
\* for (who, option): for every desired value exactly one config set is issued,
\* ending in ceph config set who option value, and if it exits zero the outcome
\* is changed=true with that command as cmd.
C2_SetWhenAbsent ==
    ( /\ variant = "config" /\ pc = "done"
      /\ params.action = "set" /\ ~params.check_mode
      /\ ReadOk(issued)
      /\ before.store[Target].none )
    => /\ Cardinality(WriteCalls(issued)) = 1
       /\ \A i \in WriteCalls(issued) :
             /\ Trailing(issued[i].cmd, 6) =
                   <<"ceph", "config", "set", params.who, params.option, params.value>>
             /\ issued[i].rc = 0 =>
                   /\ outcome.kind = "exit" /\ outcome.changed
                   /\ outcome.cmd = issued[i].cmd

\* C3: action=set, a record for (who, option) exists and its value equals the
\* desired one when both are lower-cased: no config set (no mutating command) is
\* issued and the outcome is changed=false, in check mode and outside it.
C3_EqualValueNoChange ==
    ( /\ variant = "config" /\ pc = "done"
      /\ params.action = "set"
      /\ ReadOk(issued)
      /\ HoldsValue(before.store) )
    => /\ WriteCalls(issued) = {}
       /\ outcome.kind = "exit" /\ ~outcome.changed
       /\ store = before.store

\* a set of "true" over a stored "True" ended unchanged, once in check mode and
\* once outside it
C3_Witness ==
    /\ variant = "config" /\ pc = "done" /\ run = 2
    /\ params.action = "set" /\ params.value = "true"
    /\ before.store[Target] = Str("True")
    /\ prev.check_mode /\ ~params.check_mode
    /\ ReadOk(issued) /\ ReadOk(prev.issued)
    /\ ~outcome.changed /\ ~prev.outcome.changed

\* C4: action=remove and the dump exited zero.  With no record for (who, option)
\* no mutating command is issued and the outcome is changed=false; with a record
\* and check mode off exactly one command is issued after the read, and it ends
\* in ceph config rm who option.
C4_RemoveOnlyWhenPresent ==
    ( /\ variant = "config" /\ pc = "done"
      /\ params.action = "remove"
      /\ ReadOk(issued) )
    => /\ before.store[Target].none =>
             /\ WriteCalls(issued) = {}
             /\ outcome.kind = "exit" /\ ~outcome.changed
       /\ (~before.store[Target].none /\ ~params.check_mode) =>
             /\ Cardinality(WriteCalls(issued)) = 1
             /\ \A i \in WriteCalls(issued) :
                   Trailing(issued[i].cmd, 5) =
                      <<"ceph", "config", "rm", params.who, params.option>>

\* a remove of a stored option issued its config rm, and the same remove run
\* again found nothing to remove although the section holds another option
C4_Witness ==
    /\ variant = "config" /\ pc = "done" /\ params.action = "remove"
    /\ run = 2 /\ ~params.check_mode /\ ~prev.check_mode
    /\ ~prev.before.store[Target].none
    /\ Cardinality(WriteCalls(prev.issued)) = 1 /\ AllZero(prev.issued)
    /\ before.store[Target].none
    /\ \E o \in Options : ~before.store[<<params.who, o>>].none
    /\ ReadOk(issued) /\ WriteCalls(issued) = {} /\ ~outcome.changed

\* C5 as stated: action=remove with no record for (who, option): the outcome is
\* changed=false and its cmd is the empty sequence.
C5_RemoveAbsentEmptyCmd ==
    ( /\ variant = "config" /\ pc = "done"
      /\ params.action = "remove"
      /\ ReadOk(issued)
      /\ before.store[Target].none )
    => /\ outcome.kind = "exit" /\ ~outcome.changed
       /\ outcome.cmd = <<>>

\* C5 amended: action=remove with no record for (who, option): the outcome is
\* changed=false and its cmd is the config dump command, the one command the
\* run issued.
C5_RemoveAbsentDumpCmd ==
    ( /\ variant = "config" /\ pc = "done"
      /\ params.action = "remove"
      /\ ReadOk(issued)
      /\ before.store[Target].none )
    => /\ outcome.kind = "exit" /\ ~outcome.changed
       /\ Len(issued) = 1
       /\ outcome.cmd = issued[1].cmd
       /\ IsDump(outcome.cmd)

\* the remove of osd_memory_target for osd, which the store does not hold
C5_Witness ==
    /\ variant = "config" /\ pc = "done" /\ params.action = "remove"
    /\ params.who = "osd" /\ params.option = "osd_memory_target"
    /\ ReadOk(issued)
    /\ before.store[Target].none
    /\ outcome.kind = "exit"

\* C6: check mode of the config variant, for set and remove on every store: the
\* run issues the config dump and nothing else, leaves the store as it was, and
\* reports the changed value that the same task reports when it is then run for
\* real on that store and its commands exit zero.
C6_DryRunConfig ==
    /\ ( /\ variant = "config" /\ pc = "done"
         /\ params.check_mode /\ params.action \in {"set", "remove"} )
       => /\ Len(issued) = 1 /\ IsDump(issued[1].cmd)
          /\ WriteCalls(issued) = {}
          /\ store = before.store
    /\ ( /\ variant = "config" /\ pc = "done" /\ run >= 2
         /\ prev.check_mode /\ ~params.check_mode
         /\ params.action \in {"set", "remove"}
         /\ ReadOk(prev.issued) /\ AllZero(issued) )
       => /\ before = prev.before
          /\ outcome.kind = "exit" /\ prev.outcome.kind = "exit"
          /\ outcome.changed = prev.outcome.changed

\* a set that check mode reported as a change and that the real run then wrote
C6_Witness ==
    /\ variant = "config" /\ pc = "done" /\ run = 2
    /\ params.action = "set"
    /\ prev.check_mode /\ ~params.check_mode
    /\ ReadOk(prev.issued) /\ WriteCalls(prev.issued) = {}
    /\ prev.outcome.changed
    /\ AllZero(issued) /\ Cardinality(WriteCalls(issued)) = 1
    /\ outcome.changed
    /\ store # before.store

\* C7: check mode of the service variant, for every spec and every cluster
\* state: no command at all is issued, the one outcome is changed=false with an
\* empty cmd, and the run ends there (it never reaches the comparison).
C7_DryRunService ==
    (variant = "service" /\ params.check_mode)
    => /\ pc \in {"start", "done"}
       /\ issued = <<>>
       /\ svc = before.svc
       /\ pc = "start" => outcome.kind = "none"
       /\ pc = "done" =>
             /\ outcome.kind = "exit" /\ ~outcome.changed
             /\ outcome.cmd = <<>>

\* a check-mode run ended for a valid spec that the cluster does not satisfy
C7_Witness ==
    /\ variant = "service" /\ params.check_mode /\ pc = "done"
    /\ ValidSpec /\ ~SvcSatisfied(svc)
    /\ outcome.kind = "exit"

\* C8: whenever the fetched current state is empty (None or {}), change_required
\* is true for every expected spec, and outside check mode the run issues
\* ceph orch apply -i - with the spec on standard input and, if that exits zero,
\* reports changed=true.
C8_EmptyCurrentApplies ==
    /\ (variant = "service" /\ pc = "decide" /\ ~Truthy(current))
       => \A t \in SpecTexts : \A cur \in {current, PyDict(EmptyMap)} :
             ChangeRequired(cur, ParseSpec(t), SpecKeys(t))
    /\ ( /\ variant = "service" /\ pc = "done" /\ ~params.check_mode
         /\ Len(issued) >= 1 /\ ~Truthy(current) )
       => /\ Len(issued) = 2
          /\ IsApply(issued[2].cmd)
          /\ issued[2].data = params.spec
          /\ issued[2].rc = 0 =>
                /\ outcome.kind = "exit" /\ outcome.changed
                /\ outcome.cmd = issued[2].cmd

\* a host listing that matched nothing, and the spec was applied
C8_Witness ==
    /\ variant = "service" /\ pc = "done" /\ ~params.check_mode
    /\ AllZero(issued) /\ Len(issued) = 2
    /\ ~Truthy(current)
    /\ outcome.changed

\* every field of the spec but a location that is not listed is in current with
\* an equal value
SubsetOfCurrent ==
    \A k \in DOMAIN Expected :
       \/ KeyIn(k, current) /\ current.m[k] = Expected[k]
       \/ k = "location" /\ ~KeyIn(k, current)

\* the same, the service_type of a host spec excepted
SubsetOfCurrentButHostType ==
    \A k \in DOMAIN Expected :
       \/ KeyIn(k, current) /\ current.m[k] = Expected[k]
       \/ k = "location" /\ ~KeyIn(k, current)
       \/ k = "service_type" /\ Expected[k] = "host"

\* C9 as stated: for a non-empty current state change_required is false exactly
\* when every top-level field of the spec, other than a location absent from
\* current, is in current with an equal value; a current equal to the spec
\* yields changed=false and no apply.
C9_SubsetOfCurrent ==
    ( /\ variant = "service" /\ pc \in {"decide", "done"}
      /\ Len(issued) >= 1 /\ Truthy(current) )
    => /\ ~ChangeRequired(current, Expected, SpecKeys(params.spec)) <=> SubsetOfCurrent
       /\ (pc = "done" /\ current = PyDict(Expected)) =>
             /\ outcome.kind = "exit" /\ ~outcome.changed
             /\ Len(issued) = 1

\* C9 amended: ... other than a location absent from current and, for a host
\* spec, the service_type, which change_required sets to 'host' in current
\* before it compares.  Fields of current that the spec lacks are not looked at.
C9_SubsetButHostType ==
    ( /\ variant = "service" /\ pc \in {"decide", "done"}
      /\ Len(issued) >= 1 /\ Truthy(current) )
    => /\ ~ChangeRequired(current, Expected, SpecKeys(params.spec))
             <=> SubsetOfCurrentButHostType
       /\ (pc = "done" /\ current = PyDict(Expected)) =>
             /\ outcome.kind = "exit" /\ ~outcome.changed
             /\ Len(issued) = 1

\* an nfs spec left alone although the listing carries fields the spec lacks
C9_Witness ==
    /\ variant = "service" /\ pc = "done" /\ ~params.check_mode
    /\ ReadOk(issued) /\ current.kind = "dict"
    /\ Expected["service_type"] = "nfs"
    /\ DOMAIN current.m \ DOMAIN Expected # {}
    /\ SubsetOfCurrent
    /\ outcome.kind = "exit" /\ ~outcome.changed
    /\ Len(issued) = 1

\* C10: if the live service state carries a key that the desired specification
\* lacks, the module reports changed (every command exiting zero).
C10_MissingKeyChanges ==
    ( /\ variant = "service" /\ pc = "done" /\ ~params.check_mode
      /\ Len(issued) >= 1 /\ AllZero(issued)
      /\ current.kind = "dict"
      /\ DOMAIN current.m \ DOMAIN Expected # {} )
    => outcome.kind = "exit" /\ outcome.changed

\* a field of the spec that current lacks or holds with another value
Differs(k) == ~KeyIn(k, current) \/ current.m[k] # Expected[k]

\* C11: the location exception, for a non-empty current state.  A spec whose
\* location is absent from current, all its other fields being in current with
\* equal values, needs no change (and none is applied); a location that current
\* holds with another value does need one.
C11_LocationException ==
    ( /\ variant = "service" /\ pc \in {"decide", "done"}
      /\ Len(issued) >= 1 /\ Truthy(current)
      /\ "location" \in DOMAIN Expected )
    => /\ ( /\ ~KeyIn("location", current)
            /\ \A k \in DOMAIN Expected \ {"location"} : ~Differs(k) )
          => /\ ~ChangeRequired(current, Expected, SpecKeys(params.spec))
             /\ pc = "done" =>
                   /\ outcome.kind = "exit" /\ ~outcome.changed
                   /\ Len(issued) = 1
       /\ (KeyIn("location", current) /\ current.m["location"] # Expected["location"])
          => /\ ChangeRequired(current, Expected, SpecKeys(params.spec))
             /\ pc = "done" => Len(issued) = 2 /\ IsApply(issued[2].cmd)

\* an nfs spec with a location the listing lacks was left alone
C11_Witness ==
    /\ variant = "service" /\ pc = "done" /\ ~params.check_mode
    /\ ReadOk(issued) /\ Truthy(current)
    /\ Expected["service_type"] = "nfs"
    /\ "location" \in DOMAIN Expected /\ ~KeyIn("location", current)
    /\ \A k \in DOMAIN Expected \ {"location"} : ~Differs(k)
    /\ outcome.kind = "exit" /\ ~outcome.changed

\* C12: the host synthetic type, for a non-empty current state.  For a host spec
\* the service_type never decides: change_required is true exactly when another
\* field differs (a location absent from current aside), whether or not the
\* listing carries a service_type.  For any other service_type nothing is put
\* into current: a listing without service_type needs a change.
C12_HostSyntheticType ==
    ( /\ variant = "service" /\ pc \in {"decide", "done"}
      /\ Len(issued) >= 1 /\ Truthy(current) /\ current.kind = "dict" )
    => /\ Expected["service_type"] = "host" =>
             ( ChangeRequired(current, Expected, SpecKeys(params.spec))
               <=> \E k \in DOMAIN Expected \ {"service_type"} :
                      Differs(k) /\ ~(k = "location" /\ ~KeyIn(k, current)) )
       /\ Expected["service_type"] # "host" =>
             /\ InjectHost(current, Expected) = current
             /\ ~KeyIn("service_type", current) =>
                   ChangeRequired(current, Expected, SpecKeys(params.spec))

\* a host spec against a listing without service_type was left alone
C12_Witness ==
    /\ variant = "service" /\ pc = "done" /\ ~params.check_mode
    /\ ReadOk(issued) /\ current.kind = "dict"
    /\ Expected["service_type"] = "host"
    /\ ~KeyIn("service_type", current)
    /\ outcome.kind = "exit" /\ ~outcome.changed
    /\ Len(issued) = 1

\* the read of the current state: config dump, orch ls, orch host ls
IsRead(cmd) ==
    \/ IsDump(cmd)
    \/ \E i \in 1..Len(cmd) : cmd[i] \in {"ls", "--host-pattern"}

\* the invocation's read came back with a non-zero exit status
ReadFailed == Len(issued) >= 1 /\ IsRead(issued[1].cmd) /\ issued[1].rc # 0

\* the invocation's write, when it issued one, and whether it failed
WriteFailed == Len(issued) = 2 /\ Mutating(issued[2].cmd) /\ issued[2].rc # 0

\* C13: in both variants a read that exits non-zero ends the invocation at
\* once: no command follows it, and no outcome reports changed=true.
C13_ReadFailureAborts ==
    ReadFailed =>
       /\ Len(issued) = 1
       /\ WriteCalls(issued) = {}
       /\ ~outcome.changed
       /\ pc = "done" => outcome.kind \in {"fatal", "fail", "raise"}

C15_ReadThenAtMostOneWrite ==
    /\ Len(issued) <= 2
    /\ Cardinality(WriteCalls(issued)) <= 1
    /\ Len(issued) >= 1 => IsRead(issued[1].cmd) /\ ~Mutating(issued[1].cmd)
    /\ Len(issued) = 2 => Mutating(issued[2].cmd) /\ ~IsRead(issued[2].cmd)
    /\ pc = "start" => issued = <<>>
    /\ pc = "decide" => Len(issued) = 1

\* a run issued its read and then its write
C15_Witness ==
    /\ pc = "done"
    /\ Len(issued) = 2
    /\ IsRead(issued[1].cmd) /\ issued[1].rc = 0
    /\ IsApply(issued[2].cmd)

\* the listing answered the read with 'No services reported'
SentinelAnswered ==
    /\ variant = "service" /\ pc \in {"decide", "done"}
    /\ ReadOk(issued)
    /\ OrchLsStdout(Expected["service_type"], before.svc) = OutText

\* C16: when the listing answers with its 'No services reported' text,
\* retrieve_current_spec returns the empty current state {} without handing the
\* text to yaml.safe_load, nothing is raised, and the spec is applied.
C16_SentinelIsEmptyState ==
    SentinelAnswered =>
       /\ current = PyDict(EmptyMap)
       /\ pc = "done" =>
             /\ outcome.kind # "raise" \/ WriteFailed
             /\ Len(issued) = 2 /\ IsApply(issued[2].cmd)

\* C17: action=get only runs the dump: no write, the store as it was,
\* changed=false.  When the dump succeeded the outcome is a result, not a
\* failure: with no matching record its output is empty and its message is
\* 'No value found for who=.. option=..'; with one, its output is the value.
C17_GetIsReadOnly ==
    (variant = "config" /\ params.action = "get" /\ pc = "done") =>
       /\ Len(issued) = 1 /\ IsDump(issued[1].cmd)
       /\ WriteCalls(issued) = {}
       /\ store = before.store
       /\ ~outcome.changed
       /\ ReadOk(issued) =>
             /\ outcome.kind = "exit" /\ outcome.rc = 0
             /\ store[Target].none =>
                   /\ outcome.out = <<>>
                   /\ outcome.err = <<"No value found for", params.who, params.option>>
             /\ ~store[Target].none =>
                   /\ outcome.out = <<store[Target].val>>
                   /\ outcome.err = <<>>

\* a get found no record and said so
C17_Witness ==
    /\ variant = "config" /\ params.action = "get" /\ pc = "done"
    /\ ReadOk(issued) /\ store[Target].none
    /\ \E k \in Keys : ~store[k].none
    /\ outcome.kind = "exit"
    /\ outcome.err = <<"No value found for", params.who, params.option>>

\* the invocation ended in a failure after the command it ran last failed
FailedOn ==
    /\ pc = "done" /\ issued # <<>>
    /\ issued[Len(issued)].rc # 0
    /\ outcome.kind \in {"fatal", "fail", "raise"}

\* C18: every failure outcome names the command that was attempted (its cmd,
\* or the words 'ceph config dump' of the fatal message) and carries that
\* command's stderr: after a failed dump, a failed set or rm, a failed apply.
C18_FailureNamesCommand ==
    FailedOn =>
       LET last == issued[Len(issued)]
       IN /\ \/ outcome.cmd = last.cmd
             \/ /\ outcome.kind = "fatal" /\ IsDump(last.cmd)
                /\ outcome.err[1] = "Can't get current configuration via ceph config dump"
          /\ \/ outcome.err = last.err
             \/ outcome.kind = "fatal" /\ outcome.err[2] = last.err

\* C20 (as stated): outside check mode, changed=true exactly when one mutating
\* command was issued and exited zero; every outcome with changed=false belongs
\* to an invocation that issued no mutating command; one outcome ends a run.
C20_ChangedIffWritten ==
    /\ (pc = "done") <=> (outcome.kind # "none")
    /\ (pc = "done" /\ ~params.check_mode) =>
          /\ outcome.changed <=>
                /\ Cardinality(WriteCalls(issued)) = 1
                /\ \A i \in WriteCalls(issued) : issued[i].rc = 0
          /\ ~outcome.changed => WriteCalls(issued) = {}

\* C20 (amended): as above, but only a result (not a failure) with
\* changed=false means that no mutating command was issued; a failure outcome
\* follows a write that exited non-zero, a failed dump, or a raised error.
C20_ChangedIffWriteSucceeded ==
    /\ (pc = "done") <=> (outcome.kind # "none")
    /\ outcome.kind \in {"none", "exit", "fail", "fatal", "raise"}
    /\ (pc = "done" /\ ~params.check_mode) =>
          /\ outcome.changed <=>
                /\ Cardinality(WriteCalls(issued)) = 1
                /\ \A i \in WriteCalls(issued) : issued[i].rc = 0
          /\ (outcome.kind = "exit" /\ ~outcome.changed) => WriteCalls(issued) = {}
          /\ (outcome.kind # "exit" /\ WriteCalls(issued) # {}) => WriteFailed

\* a run changed the cluster with its one write; the run after it failed on its
\* write: a failure outcome, not changed, after a mutating command
C20_Witness ==
    /\ pc = "done" /\ ~params.check_mode
    /\ WriteFailed
    /\ outcome.kind \in {"fail", "raise"} /\ ~outcome.changed
    /\ prev.outcome.kind = "exit" /\ prev.outcome.changed
    /\ Cardinality(WriteCalls(prev.issued)) = 1

\* what holds of an invocation that has ended, whatever the other one did
RanAlone(inv) ==
    /\ Len(inv.issued) \in {1, 2}
    /\ Cardinality(WriteCalls(inv.issued)) <= 1
    /\ inv.outcome.kind = "fatal" <=> inv.issued[1].rc # 0
    /\ ReadOk(inv.issued) =>
          /\ WriteCalls(inv.issued) # {} <=>
                IF inv.params.action = "set"
                THEN ~AlreadySet(inv.params.value, inv.current)
                ELSE inv.current # None
          /\ inv.outcome.kind = "fail" <=>
                (Len(inv.issued) = 2 /\ inv.issued[2].rc # 0)
          /\ inv.outcome.changed <=>
                (Len(inv.issued) = 2 /\ inv.issued[2].rc = 0)

\* the invocation wrote the value it was asked to set, and the write succeeded
WroteItsValue(inv) ==
    /\ inv.pc = "done" /\ inv.params.action = "set"
    /\ Len(inv.issued) = 2 /\ IsSet(inv.issued[2].cmd) /\ inv.issued[2].rc = 0
    /\ inv.outcome.kind = "exit" /\ inv.outcome.changed

\* C19: two invocations on the same (who, option) at the same time.  Each
\* decides from the value it read and from nothing else, issues at most one
\* write and fails only when its own command fails; neither ever waits for the
\* other; the store holds the value of the set that ran last.
C19_ReadThenWriteRace ==
    /\ pc = "done" => RanAlone(Running)
    /\ other.pc = "done" => RanAlone(other)
    /\ pc # "done" => ENABLED RaceStep
    /\ other.pc # "done" => ENABLED Switch
    /\ WroteItsValue(Running) => store[Target] = Str(params.value)

\* both sets, of different values, wrote and report changed=true; the value of
\* the one that wrote first is gone
C19_Witness ==
    /\ WroteItsValue(Running) /\ WroteItsValue(other)
    /\ Lower(Chars(params.value)) # Lower(Chars(other.params.value))
    /\ store[Target] = Str(params.value)
    /\ store[Target] # Str(other.params.value)
    /\ other.current = before.store[Target]
    /\ current = before.store[Target]

====
